---- MODULE Spec2Model ----
(***************************************************************************)
(* VisionScout front end: the chat page (src/pages/Chat.tsx) and the       *)
(* listings page (src/pages/Listings.tsx) as state machines.               *)
(*                                                                         *)
(* JavaScript strings are TLA+ strings (TLC evaluates Len, SubSeq and \o   *)
(* on them).  Only ASCII is used: the em dash of the source is written     *)
(* "--" and the bullet separator " • " is written " * ".  A JavaScript     *)
(* object is a record whose DOMAIN holds exactly the fields that are       *)
(* present; an absent field reads as undefined.                            *)
(***************************************************************************)
EXTENDS Integers, Sequences, FiniteSets, TLC

VARIABLES
    \* ---- Chat.tsx ----
    messages,      \* useState<Message[]>            Chat.tsx:29
    input,         \* useState("")                   Chat.tsx:37
    isLoading,     \* useState(false)                Chat.tsx:38
    toasts,        \* notifications raised through toast()   Chat.tsx:82
    chatPc,        \* position of the one handleSend call that can be in flight
    chatReq,       \* body of the request that call issued (closure's input)
    now,           \* Date.now()
    lastNet,       \* what the chat backend last delivered (environment record)
    \* ---- Listings.tsx ----
    mounted,
    activeType,
    propertyListings,
    carListings,
    query,
    loading,
    currentPage,
    filters,
    carFilters,
    cycles,        \* one record per run of the fetch effect (its closure)
    run,           \* what the latest run of the effect met and wrote so far
    writer,        \* the run of the effect each collection was last written by (0: none)
    lastOp,        \* the user event of the last step, if it found a page other than 1
    selectedListing,  \* useState<any | null>(null)   Listings.tsx:77
    dialogOpen,       \* useState(false)              Listings.tsx:78
    \* ---- the pure functions of Listings.tsx, evaluated on their own ----
    fn,            \* the function last evaluated
    arg,           \* its arguments
    out            \* its result

chatVars == <<messages, input, isLoading, toasts, chatPc, chatReq, now, lastNet>>
dialogVars == <<selectedListing, dialogOpen>>
listVars == <<mounted, activeType, propertyListings, carListings, query, loading,
              currentPage, filters, carFilters, cycles, run, writer, lastOp, dialogVars>>
pureVars == <<fn, arg, out>>
vars == <<chatVars, listVars, pureVars>>

(***************************************************************************)
(* Bounds of the model.                                                    *)
(***************************************************************************)
MaxTurns == 2        \* chat turns explored
MaxExtra == 1        \* records a chat response may carry beyond the cap of 3
MaxCycles == 2       \* runs of the fetch effect explored (mount included)
MaxCount == 40       \* sizes of a filtered collection totalPages is evaluated for
MaxPage == 4         \* pages paginatedListings is evaluated for, and the Next button reaches

(***************************************************************************)
(* String helpers.                                                         *)
(***************************************************************************)
Min(a, b) == IF a <= b THEN a ELSE b
Max(a, b) == IF a >= b THEN a ELSE b

IsSpace(ch) == ch \in {" ", "\t", "\n"}

\* String.prototype.trim
RECURSIVE TrimLeft(_)
TrimLeft(s) ==
    IF s = "" THEN ""
    ELSE IF IsSpace(SubSeq(s, 1, 1)) THEN TrimLeft(SubSeq(s, 2, Len(s))) ELSE s

RECURSIVE TrimRight(_)
TrimRight(s) ==
    IF s = "" THEN ""
    ELSE IF IsSpace(SubSeq(s, Len(s), Len(s)))
         THEN TrimRight(SubSeq(s, 1, Len(s) - 1)) ELSE s

Trim(s) == TrimRight(TrimLeft(s))

\* Number.prototype.toString for a natural number
Digit(d) == SubSeq("0123456789", d + 1, d + 1)

RECURSIVE NumToString(_)
NumToString(n) ==
    IF n < 10 THEN Digit(n) ELSE NumToString(n \div 10) \o Digit(n % 10)

\* Array.prototype.slice(0, k)
SliceTo(s, k) == SubSeq(s, 1, Min(k, Len(s)))

Last(s) == s[Len(s)]

(***************************************************************************)
(* Chat.tsx                                                                *)
(***************************************************************************)
Greeting ==
    "Hello! I'm your VisionScout AI assistant. I'm here to help you find the perfect property or car based on your preferences. What are you looking for today?"

\* The literal of Chat.tsx:76.  Between "couldn" and "t" the source file holds the
\* three characters U+00E2 U+20AC U+2122 (a typographic apostrophe stored
\* mis-encoded), written here by their code points.
FallbackText == "I couldn{U+00E2}{U+20AC}{U+2122}t find any matching listings."

quickPrompts ==
    << "I'm looking for a family home under $500k",
       "Show me electric cars with long range",
       "Find luxury apartments in downtown areas",
       "Compare SUVs for outdoor adventures" >>

\* The cap of data.listings.slice(0, 3)
ListingsCap == 3

\* What the user may type: empty, whitespace only, and a real request.
TypedInputs == {"", "  ", "condo near me"}

\* Records the backend may return, in the order it ranks them.
ChatPool ==
    << [make |-> "Toyota", year |-> 2020],
       [address |-> "123 Main St", city |-> "Richardson"],
       [title |-> "Used sedan", source |-> "Cars.com"],
       [make |-> "Ford", address |-> "1 Elm St"],
       [bodyType |-> "SUV"],
       [title |-> "Loft"] >>

ChatListingCounts == 0 .. Min(ListingsCap + MaxExtra, Len(ChatPool))

\* Response bodies that parse to a JSON object { reply?, listings? }.
ChatBodies ==
    LET replies == {[x |-> 0], [reply |-> ""], [reply |-> "Try a larger budget."]}
        lists == {[x |-> 0]} \cup
                 {[listings |-> SubSeq(ChatPool, 1, n)] : n \in ChatListingCounts}
    IN  { [k \in (DOMAIN r \cup DOMAIN l) \ {"x"} |->
              IF k = "reply" THEN r.reply ELSE l.listings]
          : r \in replies, l \in lists }

HttpStatuses == {200, 500}

\* ms that may pass while a request is outstanding
Delays == {0, 1}

Has(obj, f) == f \in DOMAIN obj

\* data.listings && data.listings.length > 0
HasListings(data) == Has(data, "listings") /\ Len(data.listings) > 0

\* data.reply || fallback
ReplyOrFallback(data) ==
    IF Has(data, "reply") /\ data.reply # "" THEN data.reply ELSE FallbackText

\* number of turns taken so far
UserTurns(ms) == Cardinality({i \in DOMAIN ms : ms[i].role = "user"})

InitChat ==
    /\ messages = << [id |-> "1", role |-> "assistant", content |-> Greeting] >>
    /\ input = ""
    /\ isLoading = FALSE
    /\ toasts = 0
    /\ chatPc = "idle"
    /\ chatReq = ""
    /\ now = 0
    /\ lastNet = [kind |-> "none"]

\* <Input onChange>, disabled while isLoading
SetInput(v) ==
    /\ ~isLoading
    /\ v # input
    /\ input' = v
    /\ UNCHANGED <<messages, isLoading, toasts, chatPc, chatReq, now, lastNet, listVars, pureVars>>

\* quick-prompt buttons, rendered only while the transcript holds the greeting
QuickPrompt(i) ==
    /\ Len(messages) = 1
    /\ input' = quickPrompts[i]
    /\ UNCHANGED <<messages, isLoading, toasts, chatPc, chatReq, now, lastNet, listVars, pureVars>>

\* the guard without trim(): if (!input || isLoading) return;
SendBlockedNoTrim == input = "" \/ isLoading

\* if (!input.trim() || isLoading) return;
SendBlocked == Trim(input) = "" \/ isLoading

\* handleSend that forgets setInput("")
HandleSendKeepsInput ==
    /\ UserTurns(messages) < MaxTurns
    /\ IF SendBlocked
       THEN UNCHANGED vars
       ELSE /\ messages' = Append(messages,
                   [id |-> NumToString(now), role |-> "user", content |-> input])
            /\ isLoading' = TRUE
            /\ chatReq' = input
            /\ chatPc' = "awaitFetch"
            /\ UNCHANGED <<input, toasts, now, lastNet, listVars, pureVars>>

\* handleSend up to its first await
HandleSend ==
    /\ UserTurns(messages) < MaxTurns
    /\ IF SendBlocked
       THEN UNCHANGED vars
       ELSE /\ messages' = Append(messages,
                   [id |-> NumToString(now), role |-> "user", content |-> input])
            /\ input' = ""
            /\ isLoading' = TRUE
            /\ chatReq' = input
            /\ chatPc' = "awaitFetch"
            /\ UNCHANGED <<toasts, now, lastNet, listVars, pureVars>>

\* setIsLoading(false) at the end of the try block instead of in finally
ChatCatchKeepsLoading ==
    /\ toasts' = toasts + 1
    /\ chatPc' = "idle"
    /\ UNCHANGED <<messages, input, isLoading, chatReq, listVars, pureVars>>

\* catch: toast(...); finally: setIsLoading(false)
ChatCatchFinally ==
    /\ toasts' = toasts + 1
    /\ isLoading' = FALSE
    /\ chatPc' = "idle"
    /\ UNCHANGED <<messages, input, chatReq, listVars, pureVars>>

\* fetch() rejects: network failure
ChatFetchReject ==
    /\ chatPc = "awaitFetch"
    /\ \E d \in Delays : now' = now + d
    /\ lastNet' = [kind |-> "fetchReject"]
    /\ ChatCatchFinally

\* a round-trip that checks the status: if (!response.ok) throw ...
ChatFetchResolveChecksOk(status) ==
    /\ chatPc = "awaitFetch"
    /\ lastNet' = [kind |-> "response", status |-> status]
    /\ \E d \in Delays : now' = now + d
    /\ IF status = 200
       THEN /\ chatPc' = "awaitJson"
            /\ UNCHANGED <<messages, input, isLoading, toasts, chatReq, listVars, pureVars>>
       ELSE ChatCatchFinally

\* fetch() resolves with a response of any status; response.json() is awaited
ChatFetchResolve(status) ==
    /\ chatPc = "awaitFetch"
    /\ chatPc' = "awaitJson"
    /\ lastNet' = [kind |-> "response", status |-> status]
    /\ \E d \in Delays : now' = now + d
    /\ UNCHANGED <<messages, input, isLoading, toasts, chatReq, listVars, pureVars>>

\* response.json() rejects: the body is not JSON
ChatJsonReject ==
    /\ chatPc = "awaitJson"
    /\ lastNet' = [kind |-> "jsonReject", status |-> lastNet.status]
    /\ UNCHANGED now
    /\ ChatCatchFinally

\* the body is the JSON value null: data.listings throws a TypeError
ChatJsonNull ==
    /\ chatPc = "awaitJson"
    /\ lastNet' = [kind |-> "null", status |-> lastNet.status]
    /\ UNCHANGED now
    /\ ChatCatchFinally

\* the listings branch without slice(0, 3)
ListingsMessageUnsliced(data) ==
    [id |-> NumToString(now + 1), role |-> "assistant", content |-> "",
     listings |-> data.listings]

\* the assistant message of the listings branch
ListingsMessage(data) ==
    [id |-> NumToString(now + 1), role |-> "assistant", content |-> "",
     listings |-> SliceTo(data.listings, ListingsCap)]

\* the assistant message of the else branch
FallbackMessage(data) ==
    [id |-> NumToString(now + 1), role |-> "assistant",
     content |-> ReplyOrFallback(data)]

\* setMessages([...messages, m]) with the messages of the render that sent:
\* the array the closure holds does not have the user message yet
ChatJsonResolveStaleClosure(data) ==
    /\ chatPc = "awaitJson"
    /\ lastNet' = [kind |-> "data", status |-> lastNet.status, data |-> data]
    /\ messages' = Append(SubSeq(messages, 1, Len(messages) - 1),
            IF HasListings(data) THEN ListingsMessage(data) ELSE FallbackMessage(data))
    /\ isLoading' = FALSE
    /\ chatPc' = "idle"
    /\ UNCHANGED <<input, toasts, chatReq, now, listVars, pureVars>>

\* the two branches as two independent ifs: a response with listings gets the
\* listings message and the text message
ChatJsonResolveBoth(data) ==
    /\ chatPc = "awaitJson"
    /\ lastNet' = [kind |-> "data", status |-> lastNet.status, data |-> data]
    /\ messages' = IF HasListings(data)
                   THEN messages \o <<ListingsMessage(data), FallbackMessage(data)>>
                   ELSE Append(messages, FallbackMessage(data))
    /\ isLoading' = FALSE
    /\ chatPc' = "idle"
    /\ UNCHANGED <<input, toasts, chatReq, now, listVars, pureVars>>

\* response.json() resolves with an object; try block to its end, then finally
ChatJsonResolve(data) ==
    /\ chatPc = "awaitJson"
    /\ lastNet' = [kind |-> "data", status |-> lastNet.status, data |-> data]
    /\ messages' = Append(messages,
            IF HasListings(data) THEN ListingsMessage(data) ELSE FallbackMessage(data))
    /\ isLoading' = FALSE
    /\ chatPc' = "idle"
    /\ UNCHANGED <<input, toasts, chatReq, now, listVars, pureVars>>

NextChat ==
    \/ \E v \in TypedInputs : SetInput(v)
    \/ \E i \in DOMAIN quickPrompts : QuickPrompt(i)
    \/ HandleSend
    \/ ChatFetchReject
    \/ \E st \in HttpStatuses : ChatFetchResolve(st)
    \/ ChatJsonReject
    \/ ChatJsonNull
    \/ \E data \in ChatBodies : ChatJsonResolve(data)

(***************************************************************************)
(* Listings.tsx: constants and pure helpers                                *)
(***************************************************************************)
ITEMS_PER_PAGE == 9
FETCH_DEBOUNCE_MS == 500

\* granularity of the model's clock
TickMs == FETCH_DEBOUNCE_MS \div 2

UpperChars == "ABCDEFGHIJKLMNOPQRSTUVWXYZ"
LowerChars == "abcdefghijklmnopqrstuvwxyz"

LowerOf ==
    [ch \in {SubSeq(UpperChars, i, i) : i \in 1..26} |->
        LET i == CHOOSE j \in 1..26 : SubSeq(UpperChars, j, j) = ch
        IN  SubSeq(LowerChars, i, i)]

\* String.prototype.toLowerCase
RECURSIVE ToLowerCase(_)
ToLowerCase(s) ==
    IF s = "" THEN ""
    ELSE LET ch == SubSeq(s, 1, 1)
         IN  (IF ch \in DOMAIN LowerOf THEN LowerOf[ch] ELSE ch)
                 \o ToLowerCase(SubSeq(s, 2, Len(s)))

\* String.prototype.includes
Includes(s, q) ==
    \E i \in 1 .. (Len(s) - Len(q) + 1) : SubSeq(s, i, i + Len(q) - 1) = q

\* s.split(" ")[0]
RECURSIVE FirstWord(_)
FirstWord(s) ==
    IF s = "" \/ SubSeq(s, 1, 1) = " " THEN ""
    ELSE SubSeq(s, 1, 1) \o FirstWord(SubSeq(s, 2, Len(s)))

\* Number.prototype.toLocaleString() of a natural number (en-US grouping)
RECURSIVE ToLocaleString(_)
ToLocaleString(n) ==
    IF n < 1000 THEN NumToString(n)
    ELSE LET r == n % 1000
             pad == IF r < 10 THEN "00" ELSE IF r < 100 THEN "0" ELSE ""
         IN  ToLocaleString(n \div 1000) \o "," \o pad \o NumToString(r)

\* obj.f is truthy, for a string field and for a number field
TruthyStr(obj, f) == Has(obj, f) /\ obj[f] # ""
TruthyNum(obj, f) == Has(obj, f) /\ obj[f] # 0

\* `${obj.f}` inside a template literal
TemplateStr(obj, f) == IF Has(obj, f) THEN obj[f] ELSE "undefined"

\* encodeURIComponent, for the characters the filters can hold: the encoding
\* of s from its i-th character on
RECURSIVE EncodeFrom(_, _)
EncodeFrom(s, i) ==
    IF i > Len(s) THEN ""
    ELSE LET ch == SubSeq(s, i, i)
         IN  (CASE ch = " " -> "%20"
                [] ch = "," -> "%2C"
                [] OTHER -> ch) \o EncodeFrom(s, i + 1)

EncodeURIComponent(s) == EncodeFrom(s, 1)

\* URLSearchParams serialization (application/x-www-form-urlencoded), for the
\* characters the filters can hold
RECURSIVE FormEncode(_)
FormEncode(s) ==
    IF s = "" THEN ""
    ELSE LET ch == SubSeq(s, 1, 1)
         IN  (CASE ch = " " -> "+"
                [] ch = "," -> "%2C"
                [] OTHER -> ch) \o FormEncode(SubSeq(s, 2, Len(s)))

\* Math.ceil(n / d)
CeilDiv(n, d) == (n + d - 1) \div d

(***************************************************************************)
(* Listings.tsx: the two normalizers                                       *)
(***************************************************************************)
propertyImages ==
    << "https://images.unsplash.com/photo-1545324418-cc1a3fa10c00?w=600&h=400&fit=crop",
       "https://images.unsplash.com/photo-1568605114967-8130f3a36994?w=600&h=400&fit=crop",
       "https://images.unsplash.com/photo-1512917774080-9991f1c4c750?w=600&h=400&fit=crop",
       "https://images.unsplash.com/photo-1522708323590-d24dbb6b0267?w=600&h=400&fit=crop",
       "https://images.unsplash.com/photo-1613490493576-7fde63acd811?w=600&h=400&fit=crop",
       "https://images.unsplash.com/photo-1564013799919-ab600027ffc6?w=600&h=400&fit=crop" >>

carImages ==
    << "https://images.unsplash.com/photo-1617788138017-80ad40651399?w=600&h=400&fit=crop",
       "https://images.unsplash.com/photo-1555215695-3004980ad54e?w=600&h=400&fit=crop",
       "https://images.unsplash.com/photo-1503376780353-7e6692767b70?w=600&h=400&fit=crop",
       "https://images.unsplash.com/photo-1552519507-da3b142c6e3d?w=600&h=400&fit=crop",
       "https://images.unsplash.com/photo-1606664515524-ed2f786a0bd6?w=600&h=400&fit=crop",
       "https://images.unsplash.com/photo-1533473359331-0135ef1b58bf?w=600&h=400&fit=crop" >>

\* Math.floor(Math.random() * 26) + 70, for a draw u = Math.floor(Math.random() * 26)
Condition(u) == u + 70

\* The draws of Math.random() during one map(): a stream chosen by the
\* environment, read at the record's position.  The state machine explores one
\* stream; its records get different scores.
RandomStreams == {19}
Draw(stream, i) == (stream + 7 * i) % 26

\* p.bedrooms ?? "--" : a number when present, the placeholder otherwise
NumOrDash(obj, f) == IF Has(obj, f) THEN [num |-> obj[f]] ELSE [str |-> "--"]

\* rentData.map((p, i) => ({...})), one record; i is the 0-based index
TransformProperty(p, i, f, u) ==
    [ id |-> IF TruthyStr(p, "id") THEN p.id
             ELSE NumToString(i) \o "-" \o
                  (IF TruthyStr(p, "addressLine1") THEN p.addressLine1 ELSE "addr"),
      title |-> IF TruthyStr(p, "propertyType")
                THEN p.propertyType \o
                     (IF TruthyStr(p, "addressLine1")
                      THEN " on " \o FirstWord(p.addressLine1) \o " St" ELSE "")
                ELSE "Property in " \o TemplateStr(p, "city"),
      location |-> (IF TruthyStr(p, "city") THEN p.city ELSE f.city) \o ", " \o
                   (IF TruthyStr(p, "state") THEN p.state ELSE "TX"),
      price |-> IF TruthyNum(p, "price") THEN "$" \o ToLocaleString(p.price) ELSE "N/A",
      bedrooms |-> NumOrDash(p, "bedrooms"),
      bathrooms |-> NumOrDash(p, "bathrooms"),
      sqft |-> IF TruthyNum(p, "squareFootage")
               THEN ToLocaleString(p.squareFootage) \o " sq ft" ELSE "N/A",
      image |-> propertyImages[(i % Len(propertyImages)) + 1],
      condition |-> Condition(u) ]

transformedProperties(rentData, f, stream) ==
    [k \in DOMAIN rentData |-> TransformProperty(rentData[k], k - 1, f, Draw(stream, k))]

\* c.build?.f || c.f, for a string field: the value, or "" when both are falsy
BuildOrOwnStr(c, fb, fo) ==
    IF Has(c, "build") /\ TruthyStr(c.build, fb) THEN c.build[fb]
    ELSE IF TruthyStr(c, fo) THEN c[fo] ELSE ""

OrElse(s, dflt) == IF s # "" THEN s ELSE dflt

\* c.build?.year || c.year || "N/A", as `${year}` and String(year) read it
YearString(c) ==
    IF Has(c, "build") /\ TruthyNum(c.build, "year") THEN NumToString(c.build.year)
    ELSE IF TruthyNum(c, "year") THEN NumToString(c.year) ELSE "N/A"

\* the details template of the vehicle normalizer
Details(bodyType, transmission, trim) ==
    bodyType \o (IF transmission # "" THEN " * " \o transmission ELSE "")
             \o (IF trim # "" THEN " * " \o trim ELSE "")

\* c.media?.photo_links?.[0] || carImages[i % carImages.length]
CarImage(c, i) ==
    IF /\ Has(c, "media") /\ Has(c.media, "photo_links")
       /\ Len(c.media.photo_links) > 0 /\ c.media.photo_links[1] # ""
    THEN c.media.photo_links[1]
    ELSE carImages[(i % Len(carImages)) + 1]

\* carData.map((c, i) => {...}), one record; i is the 0-based index
TransformCar(c, i, u) ==
    LET make == OrElse(BuildOrOwnStr(c, "make", "make"), "Unknown")
        model == OrElse(BuildOrOwnStr(c, "model", "model"), "Model")
        year == YearString(c)
        trim == BuildOrOwnStr(c, "trim", "trim")
        bodyType == BuildOrOwnStr(c, "body_type", "body_type")
        transmission == BuildOrOwnStr(c, "transmission", "transmission")
    IN  [ id |-> IF TruthyStr(c, "id") THEN c.id ELSE "car-" \o NumToString(i),
          title |-> year \o " " \o make \o " " \o model,
          details |-> Details(bodyType, transmission, trim),
          price |-> IF TruthyNum(c, "price") THEN "$" \o ToLocaleString(c.price) ELSE "",
          mileage |-> IF TruthyNum(c, "miles")
                      THEN ToLocaleString(c.miles) \o " miles" ELSE "N/A",
          year |-> year,
          image |-> CarImage(c, i),
          condition |-> Condition(u),
          color |-> IF TruthyStr(c, "exterior_color") THEN c.exterior_color
                    ELSE IF TruthyStr(c, "color") THEN c.color ELSE "",
          make |-> make,
          bodyType |-> bodyType ]

demoCar ==
    [ id |-> "demo-volkswagen-2014",
      title |-> "2014 Volkswagen SUV",
      details |-> "SUV * Automatic * Comfortline Trim",
      price |-> "",
      mileage |-> "124,000 miles",
      year |-> "2014",
      image |-> "@/assets/IMG_6728.jpg",
      condition |-> 82,
      color |-> "Black",
      make |-> "Volkswagen",
      bodyType |-> "SUV" ]

\* carData.map(...) followed by transformedCars.unshift(demoCar)
transformedCars(carData, stream) ==
    <<demoCar>> \o
    [k \in DOMAIN carData |-> TransformCar(carData[k], k - 1, Draw(stream, k))]

(***************************************************************************)
(* Listings.tsx: search/filter engine and paginator                        *)
(***************************************************************************)
\* the predicate without toLowerCase() on the listing's fields
MatchesCaseSensitive(listing, q, kind) ==
    \/ Includes(listing.title, q)
    \/ Includes(listing.price, q)
    \/ IF kind = "property"
       THEN \/ Includes(listing.location, q)
            \/ Includes(listing.sqft, q)
       ELSE \/ Includes(listing.details, q)
            \/ Includes(listing.year, q)
            \/ Includes(listing.mileage, q)

\* the predicate of currentListings.filter(...), q already lower-cased
Matches(listing, q, kind) ==
    \/ Includes(ToLowerCase(listing.title), q)
    \/ Includes(ToLowerCase(listing.price), q)
    \/ IF kind = "property"
       THEN \/ Includes(ToLowerCase(listing.location), q)
            \/ Includes(ToLowerCase(listing.sqft), q)
       ELSE \/ Includes(ToLowerCase(listing.details), q)
            \/ Includes(ToLowerCase(listing.year), q)
            \/ Includes(ToLowerCase(listing.mileage), q)

\* removal by splice() inside a forward loop: the listing that follows a
\* removed one is never tested
RECURSIVE FilterSeqSkipping(_, _, _)
FilterSeqSkipping(s, q, kind) ==
    IF s = <<>> THEN <<>>
    ELSE IF Matches(Head(s), q, kind)
         THEN <<Head(s)>> \o FilterSeqSkipping(Tail(s), q, kind)
         ELSE IF Len(s) >= 2
              THEN <<s[2]>> \o FilterSeqSkipping(SubSeq(s, 3, Len(s)), q, kind)
              ELSE <<>>

RECURSIVE FilterSeq(_, _, _)
FilterSeq(s, q, kind) ==
    IF s = <<>> THEN <<>>
    ELSE (IF Matches(Head(s), q, kind) THEN <<Head(s)>> ELSE <<>>)
             \o FilterSeq(Tail(s), q, kind)

\* the useMemo body of filteredListings
FilterListings(coll, qry, kind) ==
    IF Trim(qry) = "" THEN coll ELSE FilterSeq(coll, ToLowerCase(qry), kind)

\* Math.floor in place of Math.ceil
TotalPagesOfFloor(n) ==
    IF n \div ITEMS_PER_PAGE = 0 THEN 1 ELSE n \div ITEMS_PER_PAGE

\* Math.ceil(filteredListings.length / ITEMS_PER_PAGE) || 1
TotalPagesOf(n) == IF CeilDiv(n, ITEMS_PER_PAGE) = 0 THEN 1 ELSE CeilDiv(n, ITEMS_PER_PAGE)

currentListings == IF activeType = "property" THEN propertyListings ELSE carListings
filteredListings == FilterListings(currentListings, query, activeType)
totalPages == TotalPagesOf(Len(filteredListings))
\* the page number taken as 0-based
StartIndexOfZeroBased(page) == page * ITEMS_PER_PAGE

\* (currentPage - 1) * ITEMS_PER_PAGE
StartIndexOf(page) == (page - 1) * ITEMS_PER_PAGE
startIndex == StartIndexOf(currentPage)

\* Array.prototype.slice(a, b) for 0 <= a <= b
Slice(s, a, b) == SubSeq(s, Min(a, Len(s)) + 1, Min(b, Len(s)))
PageOf(filtered, page) ==
    Slice(filtered, StartIndexOf(page), StartIndexOf(page) + ITEMS_PER_PAGE)
paginatedListings == PageOf(filteredListings, currentPage)

(***************************************************************************)
(* Listings.tsx: the upstream feeds the model draws responses from         *)
(***************************************************************************)
RawProperty(k) ==
    CASE k = 1 -> [ id |-> "p1", propertyType |-> "Condo", addressLine1 |-> "500 Oak Ave",
                    city |-> "Plano", state |-> "TX", price |-> 250000,
                    bedrooms |-> 2, bathrooms |-> 2, squareFootage |-> 1200 ]
      [] k = 2 -> [ addressLine1 |-> "42 Elm Rd", bedrooms |-> 0 ]
      [] OTHER -> [ id |-> "p" \o NumToString(k), propertyType |-> "Apartment",
                    city |-> "Richardson", price |-> 1000 * k, bathrooms |-> 1 ]

RawCar(k) ==
    CASE k = 1 -> [ id |-> "c1",
                    build |-> [ make |-> "Toyota", model |-> "Camry", year |-> 2019,
                                trim |-> "SE", body_type |-> "Sedan",
                                transmission |-> "Automatic" ],
                    price |-> 18500, miles |-> 42000, exterior_color |-> "Blue",
                    media |-> [ photo_links |-> << "https://img.example/c1.jpg" >> ] ]
      [] k = 2 -> [ make |-> "Ford", trim |-> "XL" ]
      [] OTHER -> [ id |-> "c" \o NumToString(k),
                    build |-> [ make |-> "Honda", model |-> "Civic", year |-> 2010 + k ],
                    price |-> 9000 + 100 * k ]

\* sizes of the arrays an upstream answers with: under a page, over a page, and
\* (vehicles) none
PropertyCounts == {2, ITEMS_PER_PAGE + 1}
CarCounts == {0, ITEMS_PER_PAGE}

PropertyBodies == { [k \in 1..n |-> RawProperty(k)] : n \in PropertyCounts }
CarBodies == { [k \in 1..n |-> RawCar(k)] : n \in CarCounts }

\* what the user may type in the search box
Queries == {"", "Plano"}

\* a second feed: the property upstream answers with enough records for three
\* pages, and the search box takes a word most of them carry
PropertyBodiesBig == { [k \in 1..(2 * ITEMS_PER_PAGE + 1) |-> RawProperty(k)] }
QueriesBig == {"", "Apartment"}

InitFilters ==
    [ city |-> "Richardson", propertyType |-> "Apartment,Single Family,Condo",
      bedrooms |-> "", bathrooms |-> "", sqftMin |-> "", sqftMax |-> "" ]

InitCarFilters == [ color |-> "", bodyType |-> "", make |-> "" ]

\* the filter edits the model explores: <<field, value>>
PropertyEdits == { <<"propertyType", "Condo">>,
                   <<"propertyType", "Apartment,Single Family,Condo">> }
CarEdits == { <<"make", "Toyota">>, <<"make", "">> }

(***************************************************************************)
(* Listings.tsx: the fetch effect                                          *)
(***************************************************************************)
rentcastURL(f) ==
    "https://api.rentcast.io/v1/listings/sale?city=" \o EncodeURIComponent(f.city)
        \o "&state=TX&status=Active&limit=24&propertyType="
        \o EncodeURIComponent(f.propertyType)
        \o (IF f.bedrooms # "" THEN "&minBedrooms=" \o EncodeURIComponent(f.bedrooms) ELSE "")
        \o (IF f.bathrooms # "" THEN "&minBathrooms=" \o EncodeURIComponent(f.bathrooms) ELSE "")
        \o (IF f.sqftMin # "" THEN "&minSquareFootage=" \o EncodeURIComponent(f.sqftMin) ELSE "")
        \o (IF f.sqftMax # "" THEN "&maxSquareFootage=" \o EncodeURIComponent(f.sqftMax) ELSE "")

\* url.toString() after the searchParams.set calls (the key comes from the build's env)
marketcheckURL(cf) ==
    "https://api.marketcheck.com/v2/search/car/active?api_key=KEY&rows=24&zip=75080&radius=50&car_type=used"
        \o (IF cf.make # "" THEN "&make=" \o FormEncode(cf.make) ELSE "")
        \o (IF cf.bodyType # "" THEN "&body_type=" \o FormEncode(cf.bodyType) ELSE "")
        \o (IF cf.color # "" THEN "&exterior_color=" \o FormEncode(cf.color) ELSE "")

\* One run of the effect: let cancel = false; const timer = setTimeout(..., 500).
\* filters and carFilters are the values the closure captured, propReq and carReq
\* the requests it issued; late records that it returned after a newer run had.
NewCycle(f, cf) ==
    [ pc |-> "timer", cancel |-> FALSE, due |-> FETCH_DEBOUNCE_MS,
      filters |-> f, carFilters |-> cf, propReq |-> "", carReq |-> "",
      late |-> FALSE ]

\* The record of the latest run while it is current: the await that threw (if
\* any), the sources that answered with a non-2xx status, the collections the run
\* wrote and the values it wrote.
NewRun == [ threw |-> "none", non2xx |-> {}, applied |-> {}, props |-> <<>>, cars |-> <<>> ]

\* Cleanup without clearTimeout(timer): the pending callback still runs
CleanupKeepsTimer(cy) == [cy EXCEPT !.cancel = TRUE]

\* the effect's cleanup: cancel = true; clearTimeout(timer)
Cleanup(cy) ==
    [cy EXCEPT !.cancel = TRUE, !.pc = IF @ = "timer" THEN "cleared" ELSE @]

\* an effect that returns no cleanup: the previous run is left as it is
RerunWithoutCleanup(f, cf) == Append(cycles, NewCycle(f, cf))

\* React re-runs the effect: cleanup of the previous run, then a new run
RerunFetchEffect(f, cf) ==
    Append([cycles EXCEPT ![Len(cycles)] = Cleanup(@)], NewCycle(f, cf))

\* if (!cancel)
StillCurrent(c) == ~cycles[c].cancel

\* the page-reset effect with activeType missing from its dependency list
PageAfterRenderNoKind(typeChanged, filtersChanged, carFiltersChanged, queryChanged) ==
    IF filtersChanged \/ carFiltersChanged THEN 1 ELSE currentPage

\* useEffect(() => setCurrentPage(1), [activeType, filters, carFilters])
PageAfterRender(typeChanged, filtersChanged, carFiltersChanged, queryChanged) ==
    IF typeChanged \/ filtersChanged \/ carFiltersChanged THEN 1 ELSE currentPage

\* lastOp: the user event of the last step, when it found a page other than 1
NoOp == [op |-> "none", page |-> 1]
Note(op) == IF currentPage # 1 THEN [op |-> op, page |-> currentPage] ELSE NoOp

\* the value of selectedListing while no listing is selected
null == [null |-> TRUE]

InitListings ==
    /\ mounted = TRUE
    /\ activeType = "property"
    /\ propertyListings = <<>>
    /\ carListings = <<>>
    /\ query = ""
    /\ loading = TRUE
    /\ currentPage = 1
    /\ filters = InitFilters
    /\ carFilters = InitCarFilters
    /\ cycles = << NewCycle(InitFilters, InitCarFilters) >>
    /\ run = NewRun
    /\ writer = [property |-> 0, car |-> 0]
    /\ lastOp = NoOp
    /\ selectedListing = null
    /\ dialogOpen = FALSE

\* ---- user events ----
\* the Properties / Cars toggle
SetActiveType(t) ==
    /\ mounted
    /\ activeType' = t
    /\ currentPage' = PageAfterRender(t # activeType, FALSE, FALSE, FALSE)
    /\ lastOp' = Note("SetActiveType")
    /\ UNCHANGED <<pureVars, chatVars, dialogVars, writer, mounted, propertyListings, carListings, query, loading,
                   filters, carFilters, cycles, run>>

\* setFilters((f) => ({ ...f, [field]: value })), property filters are shown
\* for the property kind only; the new object re-runs both effects
SetFilters(field, value) ==
    /\ mounted
    /\ activeType = "property"
    /\ value # filters[field]
    /\ Len(cycles) < MaxCycles
    /\ filters' = [filters EXCEPT ![field] = value]
    /\ cycles' = RerunFetchEffect(filters', carFilters)
    /\ run' = NewRun
    /\ currentPage' = PageAfterRender(FALSE, TRUE, FALSE, FALSE)
    /\ lastOp' = Note("SetFilters")
    /\ UNCHANGED <<pureVars, chatVars, dialogVars, writer, mounted, activeType, propertyListings, carListings, query,
                   loading, carFilters>>

\* setCarFilters((f) => ({ ...f, [field]: value }))
SetCarFilters(field, value) ==
    /\ mounted
    /\ activeType = "car"
    /\ value # carFilters[field]
    /\ Len(cycles) < MaxCycles
    /\ carFilters' = [carFilters EXCEPT ![field] = value]
    /\ cycles' = RerunFetchEffect(filters, carFilters')
    /\ run' = NewRun
    /\ currentPage' = PageAfterRender(FALSE, FALSE, TRUE, FALSE)
    /\ lastOp' = Note("SetCarFilters")
    /\ UNCHANGED <<pureVars, chatVars, dialogVars, writer, mounted, activeType, propertyListings, carListings, query,
                   loading, filters>>

\* the search box: onChange={(e) => setQuery(e.target.value)}
SetQuery(q) ==
    /\ mounted
    /\ q # query
    /\ query' = q
    /\ currentPage' = PageAfterRender(FALSE, FALSE, FALSE, TRUE)
    /\ lastOp' = Note("SetQuery")
    /\ UNCHANGED <<pureVars, chatVars, dialogVars, writer, mounted, activeType, propertyListings, carListings, loading,
                   filters, carFilters, cycles, run>>

\* the clear button, rendered while query is non-empty: setQuery("")
ClearQuery ==
    /\ mounted
    /\ query # ""
    /\ query' = ""
    /\ currentPage' = PageAfterRender(FALSE, FALSE, FALSE, TRUE)
    /\ lastOp' = Note("ClearQuery")
    /\ UNCHANGED <<pureVars, chatVars, dialogVars, writer, mounted, activeType, propertyListings, carListings, loading,
                   filters, carFilters, cycles, run>>

\* handlePageChange(page): setCurrentPage(page)
handlePageChange(page) ==
    /\ currentPage' = page
    /\ lastOp' = Note("PageChange")
    /\ UNCHANGED <<pureVars, chatVars, dialogVars, writer, mounted, activeType, propertyListings, carListings, query,
                   loading, filters, carFilters, cycles, run>>

\* The pagination bar, rendered when the list is shown and totalPages > 1:
\* Previous (disabled on page 1), one numbered button per page, Next (disabled
\* on the last page).  tp is totalPages of the render the user sees.
PaginationClick ==
    /\ mounted
    /\ ~loading
    /\ LET tp == totalPages
       IN  /\ tp > 1
           /\ \/ currentPage # 1 /\ handlePageChange(currentPage - 1)
              \/ \E p \in 1..tp : handlePageChange(p)
              \/ /\ currentPage # tp
                 /\ currentPage < MaxPage
                 /\ handlePageChange(currentPage + 1)

\* the component is torn down: the effect's cleanup runs
Unmount ==
    /\ mounted
    /\ mounted' = FALSE
    /\ cycles' = [cycles EXCEPT ![Len(cycles)] = Cleanup(@)]
    /\ lastOp' = NoOp
    /\ UNCHANGED <<pureVars, chatVars, dialogVars, writer, activeType, propertyListings, carListings, query, loading,
                   currentPage, filters, carFilters, run>>

\* ---- the details dialog ----
\* the grid and the dialog are rendered in the branch taken when loading is false
ListShown == mounted /\ ~loading

\* View Details on the i-th card of the page: setSelectedListing(listing);
\* setDialogOpen(true).  The open dialog is modal: the cards behind it take no
\* clicks.
ViewDetails(i) ==
    /\ ListShown
    /\ ~dialogOpen
    /\ i \in DOMAIN paginatedListings
    /\ selectedListing' = paginatedListings[i]
    /\ dialogOpen' = TRUE
    /\ lastOp' = NoOp
    /\ UNCHANGED <<pureVars, chatVars, writer, mounted, activeType, propertyListings,
                   carListings, query, loading, currentPage, filters, carFilters, cycles, run>>

\* the dialog is dismissed (Escape, a click outside, the corner button):
\* onOpenChange(false) runs setDialogOpen(false) and setSelectedListing(null)
DialogDismiss ==
    /\ ListShown
    /\ dialogOpen
    /\ dialogOpen' = FALSE
    /\ selectedListing' = null
    /\ lastOp' = NoOp
    /\ UNCHANGED <<pureVars, chatVars, writer, mounted, activeType, propertyListings,
                   carListings, query, loading, currentPage, filters, carFilters, cycles, run>>

\* the Close button of the footer: setDialogOpen(false).  The dialog is
\* controlled, so onOpenChange is not called for a change of the open prop.
CloseButton ==
    /\ ListShown
    /\ dialogOpen
    /\ dialogOpen' = FALSE
    /\ lastOp' = NoOp
    /\ UNCHANGED <<pureVars, chatVars, writer, mounted, activeType, propertyListings,
                   carListings, query, loading, currentPage, filters, carFilters, cycles, run,
                   selectedListing>>

\* ---- time ----
\* TickMs pass; a pending timer comes closer to its deadline
Tick ==
    /\ \E c \in DOMAIN cycles : cycles[c].pc = "timer" /\ cycles[c].due > 0
    /\ cycles' = [c \in DOMAIN cycles |->
                    IF cycles[c].pc = "timer"
                    THEN [cycles[c] EXCEPT !.due = Max(0, @ - TickMs)]
                    ELSE cycles[c]]
    /\ lastOp' = NoOp
    /\ UNCHANGED <<pureVars, chatVars, dialogVars, writer, mounted, activeType, propertyListings, carListings, query, loading,
                   currentPage, filters, carFilters, run>>

\* ---- the timer callback of cycle c, one action per stretch between awaits ----
\* the same writes without the if (!cancel) guard
UnguardedSet(c, new, old) == new

\* if (!cancel) setPropertyListings(x) / setCarListings(x) / setLoading(false)
GuardedSet(c, new, old) == IF StillCurrent(c) THEN new ELSE old

\* the timer fires: setLoading(true), the property request is issued
TimerFire(c) ==
    /\ cycles[c].pc = "timer"
    /\ cycles[c].due = 0
    /\ loading' = TRUE
    /\ cycles' = [cycles EXCEPT ![c].pc = "awaitPropFetch",
                                ![c].propReq = rentcastURL(cycles[c].filters)]
    /\ lastOp' = NoOp
    /\ UNCHANGED <<pureVars, chatVars, dialogVars, writer, mounted, activeType, propertyListings, carListings, query,
                   currentPage, filters, carFilters, run>>

\* a newer run of the effect has already returned
NewerDone(c) == \E d \in DOMAIN cycles : d > c /\ cycles[d].pc = "done"

\* c is the latest run and has not been cleaned up: its steps are recorded in run
Recorded(c) == c = Len(cycles) /\ ~cycles[c].cancel

\* a catch block that degrades to empty: both collections are emptied
CatchEmpties(c, where) ==
    /\ cycles' = [cycles EXCEPT ![c].pc = "done", ![c].late = NewerDone(c)]
    /\ propertyListings' = GuardedSet(c, <<>>, propertyListings)
    /\ carListings' = GuardedSet(c, <<>>, carListings)
    /\ loading' = GuardedSet(c, FALSE, loading)
    /\ run' = IF Recorded(c) THEN [run EXCEPT !.threw = where] ELSE run
    /\ lastOp' = NoOp
    /\ UNCHANGED <<pureVars, chatVars, dialogVars, writer, mounted, activeType, query,
                   currentPage, filters, carFilters>>

\* catch without the finally block: loading is not cleared after an error
CatchNoFinally(c, where) ==
    /\ cycles' = [cycles EXCEPT ![c].pc = "done", ![c].late = NewerDone(c)]
    /\ run' = IF Recorded(c) THEN [run EXCEPT !.threw = where] ELSE run
    /\ lastOp' = NoOp
    /\ UNCHANGED <<pureVars, chatVars, dialogVars, writer, mounted, activeType, propertyListings,
                   carListings, query, loading, currentPage, filters, carFilters>>

\* an await threw: catch (console.error), then finally
CatchFinally(c, where) ==
    /\ cycles' = [cycles EXCEPT ![c].pc = "done", ![c].late = NewerDone(c)]
    /\ loading' = GuardedSet(c, FALSE, loading)
    /\ run' = IF Recorded(c) THEN [run EXCEPT !.threw = where] ELSE run
    /\ lastOp' = NoOp
    /\ UNCHANGED <<pureVars, chatVars, dialogVars, writer, mounted, activeType, propertyListings, carListings, query,
                   currentPage, filters, carFilters>>

\* rentData is known: map, guarded write, then the vehicle request is issued
PropertyDataThenCarRequest(c, rentData, stream, ok) ==
    LET tp == transformedProperties(rentData, cycles[c].filters, stream)
    IN  /\ propertyListings' = GuardedSet(c, tp, propertyListings)
        /\ writer' = [writer EXCEPT !.property = GuardedSet(c, c, @)]
        /\ cycles' = [cycles EXCEPT
                ![c].pc = "awaitCarFetch",
                ![c].carReq = marketcheckURL(cycles[c].carFilters)]
        /\ run' = IF Recorded(c)
                  THEN [run EXCEPT !.non2xx = IF ok THEN @ ELSE @ \cup {"property"},
                                   !.applied = @ \cup {"property"},
                                   !.props = tp]
                  ELSE run
        /\ lastOp' = NoOp
        /\ UNCHANGED <<pureVars, chatVars, dialogVars, mounted, activeType, carListings, query, loading, currentPage,
                       filters, carFilters>>

\* await fetch(rentcastURL) rejects: network error
PropFetchReject(c) ==
    /\ cycles[c].pc = "awaitPropFetch"
    /\ CatchFinally(c, "propertyFetch")

\* await fetch(rentcastURL) resolves; rentRes.ok decides whether the body is read
PropFetchResolve(c, ok) ==
    /\ cycles[c].pc = "awaitPropFetch"
    /\ IF ok
       THEN /\ cycles' = [cycles EXCEPT ![c].pc = "awaitPropJson"]
            /\ lastOp' = NoOp
            /\ UNCHANGED <<pureVars, chatVars, dialogVars, writer, mounted, activeType, propertyListings, carListings, query,
                           loading, currentPage, filters, carFilters, run>>
       ELSE PropertyDataThenCarRequest(c, <<>>, 0, FALSE)

\* await rentRes.json() rejects, or yields a value that has no map()
PropJsonUnusable(c) ==
    /\ cycles[c].pc = "awaitPropJson"
    /\ CatchFinally(c, "propertyBody")

\* await rentRes.json() yields an array
PropJsonResolve(c, body, stream) ==
    /\ cycles[c].pc = "awaitPropJson"
    /\ PropertyDataThenCarRequest(c, body, stream, TRUE)

\* carData is known: map, unshift(demoCar), guarded write, finally
CarDataThenFinally(c, carData, stream, ok) ==
    LET tc == transformedCars(carData, stream)
    IN  /\ carListings' = GuardedSet(c, tc, carListings)
        /\ writer' = [writer EXCEPT !.car = GuardedSet(c, c, @)]
        /\ loading' = GuardedSet(c, FALSE, loading)
        /\ cycles' = [cycles EXCEPT ![c].pc = "done", ![c].late = NewerDone(c)]
        /\ run' = IF Recorded(c)
                  THEN [run EXCEPT !.non2xx = IF ok THEN @ ELSE @ \cup {"car"},
                                   !.applied = @ \cup {"car"},
                                   !.cars = tc]
                  ELSE run
        /\ lastOp' = NoOp
        /\ UNCHANGED <<pureVars, chatVars, dialogVars, mounted, activeType, propertyListings, query, currentPage,
                       filters, carFilters>>

\* await fetch(url) rejects: network error
CarFetchReject(c) ==
    /\ cycles[c].pc = "awaitCarFetch"
    /\ CatchFinally(c, "carFetch")

\* await fetch(url) resolves; carRes.ok decides whether the body is read
CarFetchResolve(c, ok) ==
    /\ cycles[c].pc = "awaitCarFetch"
    /\ IF ok
       THEN /\ cycles' = [cycles EXCEPT ![c].pc = "awaitCarJson"]
            /\ lastOp' = NoOp
            /\ UNCHANGED <<pureVars, chatVars, dialogVars, writer, mounted, activeType, propertyListings, carListings, query,
                           loading, currentPage, filters, carFilters, run>>
       ELSE CarDataThenFinally(c, <<>>, 0, FALSE)

\* await carRes.json() rejects, or yields null
CarJsonUnusable(c) ==
    /\ cycles[c].pc = "awaitCarJson"
    /\ CatchFinally(c, "carBody")

\* await carRes.json() yields an object; carData = json.listings || []
CarJsonResolve(c, listings, stream) ==
    /\ cycles[c].pc = "awaitCarJson"
    /\ CarDataThenFinally(c, listings, stream, TRUE)

NextListings ==
    \/ \E t \in {"property", "car"} : SetActiveType(t)
    \/ \E e \in PropertyEdits : SetFilters(e[1], e[2])
    \/ \E e \in CarEdits : SetCarFilters(e[1], e[2])
    \/ \E q \in Queries : SetQuery(q)
    \/ ClearQuery
    \/ PaginationClick
    \/ Unmount
    \/ Tick
    \/ \E c \in DOMAIN cycles : TimerFire(c)
    \/ \E c \in DOMAIN cycles : PropFetchReject(c)
    \/ \E c \in DOMAIN cycles, ok \in BOOLEAN : PropFetchResolve(c, ok)
    \/ \E c \in DOMAIN cycles : PropJsonUnusable(c)
    \/ \E c \in DOMAIN cycles, body \in PropertyBodies, s \in RandomStreams :
          PropJsonResolve(c, body, s)
    \/ \E c \in DOMAIN cycles : CarFetchReject(c)
    \/ \E c \in DOMAIN cycles, ok \in BOOLEAN : CarFetchResolve(c, ok)
    \/ \E c \in DOMAIN cycles : CarJsonUnusable(c)
    \/ \E c \in DOMAIN cycles, body \in CarBodies, s \in RandomStreams :
          CarJsonResolve(c, body, s)

\* the same events over the second feed
NextListingsBig ==
    \/ \E t \in {"property", "car"} : SetActiveType(t)
    \/ \E e \in PropertyEdits : SetFilters(e[1], e[2])
    \/ \E e \in CarEdits : SetCarFilters(e[1], e[2])
    \/ \E q \in QueriesBig : SetQuery(q)
    \/ ClearQuery
    \/ PaginationClick
    \/ Unmount
    \/ Tick
    \/ \E c \in DOMAIN cycles : TimerFire(c)
    \/ \E c \in DOMAIN cycles : PropFetchReject(c)
    \/ \E c \in DOMAIN cycles, ok \in BOOLEAN : PropFetchResolve(c, ok)
    \/ \E c \in DOMAIN cycles : PropJsonUnusable(c)
    \/ \E c \in DOMAIN cycles, body \in PropertyBodiesBig, s \in RandomStreams :
          PropJsonResolve(c, body, s)
    \/ \E c \in DOMAIN cycles : CarFetchReject(c)
    \/ \E c \in DOMAIN cycles, ok \in BOOLEAN : CarFetchResolve(c, ok)
    \/ \E c \in DOMAIN cycles : CarJsonUnusable(c)
    \/ \E c \in DOMAIN cycles, body \in CarBodies, s \in RandomStreams :
          CarJsonResolve(c, body, s)

\* the fetch effect alone: the events that re-run it, the clock, and the
\* settling of its requests
TimerRuns == Tick \/ \E c \in DOMAIN cycles : TimerFire(c)
PropertyRequestSettles ==
    \E c \in DOMAIN cycles :
        \/ PropFetchReject(c)
        \/ \E ok \in BOOLEAN : PropFetchResolve(c, ok)
        \/ PropJsonUnusable(c)
        \/ \E body \in PropertyBodies, s \in RandomStreams : PropJsonResolve(c, body, s)
CarRequestSettles ==
    \E c \in DOMAIN cycles :
        \/ CarFetchReject(c)
        \/ \E ok \in BOOLEAN : CarFetchResolve(c, ok)
        \/ CarJsonUnusable(c)
        \/ \E body \in CarBodies, s \in RandomStreams : CarJsonResolve(c, body, s)

NextFetch ==
    \/ \E t \in {"property", "car"} : SetActiveType(t)
    \/ \E e \in PropertyEdits : SetFilters(e[1], e[2])
    \/ \E e \in CarEdits : SetCarFilters(e[1], e[2])
    \/ Unmount
    \/ TimerRuns
    \/ PropertyRequestSettles
    \/ CarRequestSettles

\* the listings page with its details dialog
\* (both upstreams answer with a short array, so every listing is on page 1)
NextSelection ==
    \/ \E t \in {"property", "car"} : SetActiveType(t)
    \/ \E e \in PropertyEdits : SetFilters(e[1], e[2])
    \/ \E e \in CarEdits : SetCarFilters(e[1], e[2])
    \/ Tick
    \/ \E c \in DOMAIN cycles : TimerFire(c)
    \/ \E c \in DOMAIN cycles : PropFetchReject(c)
    \/ \E c \in DOMAIN cycles, ok \in BOOLEAN : PropFetchResolve(c, ok)
    \/ \E c \in DOMAIN cycles, s \in RandomStreams :
          PropJsonResolve(c, [k \in 1..2 |-> RawProperty(k)], s)
    \/ \E c \in DOMAIN cycles, ok \in BOOLEAN : CarFetchResolve(c, ok)
    \/ \E c \in DOMAIN cycles, s \in RandomStreams :
          CarJsonResolve(c, [k \in 1..2 |-> RawCar(k)], s)
    \/ \E i \in 1..ITEMS_PER_PAGE : ViewDetails(i)
    \/ DialogDismiss
    \/ CloseButton

\* The promises handleSend awaits settle: fetch() resolves or rejects, and so
\* does response.json().
ChatFetchSettles == ChatFetchReject \/ \E st \in HttpStatuses : ChatFetchResolve(st)
ChatJsonSettles ==
    ChatJsonReject \/ ChatJsonNull \/ \E data \in ChatBodies : ChatJsonResolve(data)

(***************************************************************************)
(* Listings.tsx: the filter and the paginator evaluated as functions        *)
(***************************************************************************)
\* sizes of the arrays the upstreams answer with (the requests ask for 24)
PureCounts == {0, 2, ITEMS_PER_PAGE - 1, ITEMS_PER_PAGE + 1, 2 * ITEMS_PER_PAGE + 1}

\* the collections the filter runs on, each with the kind it is shown under
PureCollections ==
    { [coll |-> transformedProperties([k \in 1..n |-> RawProperty(k)], InitFilters, s),
       kind |-> "property"] : n \in PureCounts, s \in RandomStreams }
    \cup
    { [coll |-> transformedCars([k \in 1..n |-> RawCar(k)], s),
       kind |-> "car"] : n \in PureCounts, s \in RandomStreams }

\* what the search box may hold: blank, white space, and text that meets each
\* searched field in some letter case
PureQueries ==
    { "", " ", " \t ", "Plano", "plano", "PLANO", " plano", "plano ", "condo", "$250",
      "1,200", "sq ft", "tx", "Sedan", "2019", "42,000", "MILES", "suv * auto",
      "volkswagen", "zzz" }

InitPure ==
    /\ fn = "none"
    /\ arg = [none |-> TRUE]
    /\ out = [none |-> TRUE]

\* filteredListings for one collection, query and kind
EvalFiltered(c, q) ==
    /\ fn = "none"
    /\ fn' = "filteredListings"
    /\ arg' = [coll |-> c.coll, query |-> q, kind |-> c.kind]
    /\ out' = FilterListings(c.coll, q, c.kind)
    /\ UNCHANGED <<chatVars, listVars>>

\* the memo re-evaluated with its own result as the collection
EvalFilteredAgain ==
    /\ fn = "filteredListings"
    /\ fn' = "filteredAgain"
    /\ arg' = [coll |-> out, query |-> arg.query, kind |-> arg.kind]
    /\ out' = FilterListings(out, arg.query, arg.kind)
    /\ UNCHANGED <<chatVars, listVars>>

\* totalPages for a filtered collection of n listings
EvalTotalPages(n) ==
    /\ fn = "none"
    /\ fn' = "totalPages"
    /\ arg' = [n |-> n]
    /\ out' = [pages |-> TotalPagesOf(n)]
    /\ UNCHANGED <<chatVars, listVars>>

\* paginatedListings for the filtered view held in out, at page p
EvalPaginated(p) ==
    /\ fn = "filteredListings"
    /\ fn' = "paginatedListings"
    /\ arg' = [filtered |-> out, page |-> p]
    /\ out' = PageOf(out, p)
    /\ UNCHANGED <<chatVars, listVars>>

(***************************************************************************)
(* Chat.tsx: the classifier of message.listings.map                        *)
(***************************************************************************)
\* item.make || item.bodyType || item.source === "Cars.com", as the condition
\* of !isCar ? ... : ...
isCar(item) ==
    \/ TruthyStr(item, "make")
    \/ TruthyStr(item, "bodyType")
    \/ (Has(item, "source") /\ item.source = "Cars.com")

\* isCar computed once, from the first record, for the whole message
LayoutsByFirst(listings) ==
    [i \in DOMAIN listings |-> IF isCar(listings[1]) THEN "car" ELSE "property"]

\* the layout each record of a message is rendered with
Layouts(listings) ==
    [i \in DOMAIN listings |-> IF isCar(listings[i]) THEN "car" ELSE "property"]

\* records a message may carry; the seventh is the empty record {}
ClassifierPool ==
    << [make |-> "Toyota", year |-> 2020],
       [address |-> "123 Main St", city |-> "Richardson"],
       [title |-> "Used sedan", source |-> "Cars.com"],
       [make |-> "Ford", address |-> "1 Elm St"],
       [bodyType |-> "SUV"],
       [title |-> "Loft", source |-> "Zillow"],
       [f \in {} |-> ""],
       [make |-> "", address |-> "9 Pine Ct"] >>

\* the listings of one message: up to ListingsCap records of the pool, in any
\* order and mix
EvalLayouts(picks) ==
    /\ fn = "none"
    /\ fn' = "layouts"
    /\ arg' = [picks |-> picks,
               listings |-> [i \in DOMAIN picks |-> ClassifierPool[picks[i]]]]
    /\ out' = Layouts(arg'.listings)
    /\ UNCHANGED <<chatVars, listVars>>

(***************************************************************************)
(* Listings.tsx: the normalizers evaluated on records with missing fields  *)
(***************************************************************************)
\* an upstream property record with every field the normalizer reads
FullProperty == RawProperty(1)

\* an upstream vehicle record with every field the normalizer reads, flat
FullCar ==
    [ id |-> "c1", make |-> "Toyota", model |-> "Camry", year |-> 2019, trim |-> "SE",
      price |-> 18500, miles |-> 42000, body_type |-> "Sedan",
      transmission |-> "Automatic", exterior_color |-> "Blue" ]

\* the fields MarketCheck may deliver under c.build instead
BuildFields == {"make", "model", "year", "trim", "body_type", "transmission"}

\* the record with the fields of S only; nested: those of BuildFields sit under build
PartialProperty(S) == [f \in S |-> FullProperty[f]]
PartialCar(S, nested) ==
    IF nested
    THEN [f \in (S \ BuildFields) \cup {"build"} |->
             IF f = "build" THEN [g \in S \cap BuildFields |-> FullCar[g]] ELSE FullCar[f]]
    ELSE [f \in S |-> FullCar[f]]

\* rentData.map(...) on the one-record array [p]
EvalTransformProperty(S, stream) ==
    /\ fn = "none"
    /\ fn' = "transformedProperties"
    /\ arg' = [present |-> S, rentData |-> << PartialProperty(S) >>]
    /\ out' = transformedProperties(arg'.rentData, InitFilters, stream)
    /\ UNCHANGED <<chatVars, listVars>>

\* carData.map(...) and unshift(demoCar) on the one-record array [c]
EvalTransformCar(S, nested, stream) ==
    /\ fn = "none"
    /\ fn' = "transformedCars"
    /\ arg' = [present |-> S, nested |-> nested, carData |-> << PartialCar(S, nested) >>]
    /\ out' = transformedCars(arg'.carData, stream)
    /\ UNCHANGED <<chatVars, listVars>>

(***************************************************************************)
(* Listings.tsx: the condition label of the details dialog                 *)
(***************************************************************************)
\* the draws Math.floor(Math.random() * 26) can return
Draws == 0..25

\* selectedListing?.condition ?? 85
ConditionOf(sel) == IF sel # null /\ Has(sel, "condition") THEN sel.condition ELSE 85

\* the thresholds compared with > instead of >=
ConditionLabelStrict(sel) ==
    IF ConditionOf(sel) > 90 THEN "Excellent"
    ELSE IF ConditionOf(sel) > 80 THEN "Very Good" ELSE "Good"

\* the label rendered next to the score
ConditionLabel(sel) ==
    IF ConditionOf(sel) >= 90 THEN "Excellent"
    ELSE IF ConditionOf(sel) >= 80 THEN "Very Good" ELSE "Good"

\* the label for a selected listing whose score was sampled with draw u
EvalConditionLabel(u) ==
    /\ fn = "none"
    /\ fn' = "conditionLabel"
    /\ arg' = [selected |-> [condition |-> Condition(u)]]
    /\ out' = [label |-> ConditionLabel(arg'.selected)]
    /\ UNCHANGED <<chatVars, listVars>>

NextPure ==
    \/ \E c \in PureCollections, q \in PureQueries : EvalFiltered(c, q)
    \/ EvalFilteredAgain
    \/ \E n \in 0..MaxCount : EvalTotalPages(n)
    \/ \E p \in 1..MaxPage : EvalPaginated(p)
    \/ \E n \in 1..ListingsCap :
          \E picks \in [1..n -> DOMAIN ClassifierPool] : EvalLayouts(picks)
    \/ \E u \in Draws : EvalConditionLabel(u)
    \/ \E S \in SUBSET DOMAIN FullProperty, st \in RandomStreams :
          EvalTransformProperty(S, st)
    \/ \E S \in SUBSET DOMAIN FullCar, nested \in BOOLEAN, st \in RandomStreams :
          EvalTransformCar(S, nested, st)

Init == InitChat /\ InitListings /\ InitPure

SpecChat == Init /\ [][NextChat]_vars
SpecChatFair ==
    SpecChat /\ WF_vars(ChatFetchSettles) /\ WF_vars(ChatJsonSettles)
SpecListings == Init /\ [][NextListings]_vars
SpecListingsBig == Init /\ [][NextListingsBig]_vars
SpecPure == Init /\ [][NextPure]_vars
SpecSelection == Init /\ [][NextSelection]_vars

\* the browser runs due timers, and every request that was issued settles
SpecFetchFair ==
    /\ Init /\ [][NextFetch]_vars
    /\ WF_vars(TimerRuns)
    /\ WF_vars(PropertyRequestSettles)
    /\ WF_vars(CarRequestSettles)

(***************************************************************************)
(* Claims about the fetch orchestrator and the paginator (SpecListings)    *)
(***************************************************************************)
SharedState == <<propertyListings, carListings, loading, currentPage>>
Latest == Len(cycles)
Started(c) == cycles[c].propReq # ""

\* C1: a step of a fetch cycle that was superseded (cancel set by a re-run of the
\* effect or by unmount) leaves the property collection, the vehicle collection,
\* the loading flag and the current page unchanged; and whatever the latest cycle
\* wrote stays in place however late the stale cycles resolve.
C1_StaleStep ==
    \A c \in DOMAIN cycles :
        (cycles[c].cancel /\ cycles'[c] # cycles[c]) => UNCHANGED SharedState
C1_LatestWins ==
    /\ "property" \in run.applied => propertyListings = run.props
    /\ "car" \in run.applied => carListings = run.cars
C1_StaleCycleNeverWrites == [][C1_StaleStep]_vars /\ []C1_LatestWins

\* C1 witness: cycle A started, cycle B started before A resolved, A resolved after
\* B had applied both results, and the collections are the ones B wrote.
C1_Witness ==
    \E a \in DOMAIN cycles :
        /\ a < Latest
        /\ Started(a) /\ cycles[a].cancel /\ cycles[a].pc = "done" /\ cycles[a].late
        /\ ~cycles[Latest].cancel /\ cycles[Latest].pc = "done"
        /\ run.applied = {"property", "car"}
        /\ propertyListings = run.props /\ carListings = run.cars
        /\ Len(run.props) > 0

\* C2: a filter change cancels the pending timer and schedules a new cycle a full
\* FETCH_DEBOUNCE_MS later; a cycle begins only when its delay has elapsed, only
\* if it is the latest one, and its request carries the filter state of the last
\* change; a cycle whose timer was cleared never begins.
C2_Step ==
    /\ (filters' # filters \/ carFilters' # carFilters) =>
          /\ Len(cycles') = Len(cycles) + 1
          /\ cycles'[Latest].pc # "timer"
          /\ cycles'[Latest + 1].pc = "timer"
          /\ cycles'[Latest + 1].due = FETCH_DEBOUNCE_MS
          /\ cycles'[Latest + 1].filters = filters'
          /\ cycles'[Latest + 1].carFilters = carFilters'
    /\ \A c \in DOMAIN cycles :
          /\ (~Started(c) /\ cycles'[c].propReq # "") =>
                /\ c = Latest
                /\ ~cycles[c].cancel
                /\ cycles[c].due = 0
                /\ cycles'[c].propReq = rentcastURL(filters)
                /\ cycles[c].carFilters = carFilters
          /\ cycles[c].pc = "cleared" => cycles'[c] = cycles[c]
C2_Debounce == [][C2_Step]_vars

\* C2 witness: the filters changed while cycle 1 was pending; cycle 1 never began
\* and cycle 2 began with the request for the changed filters.
C2_Witness ==
    /\ Len(cycles) >= 2
    /\ cycles[1].pc = "cleared" /\ ~Started(1)
    /\ cycles[2].filters # cycles[1].filters
    /\ cycles[2].pc = "awaitPropFetch"
    /\ cycles[2].propReq = rentcastURL(cycles[2].filters)
    /\ cycles[2].propReq # rentcastURL(cycles[1].filters)

PropertyFailed == "property" \in run.non2xx \/ run.threw = "propertyFetch"
CarFailed == "car" \in run.non2xx \/ run.threw = "carFetch"

\* C3: when one source of the current cycle fails (non-2xx or network error) the
\* cycle still applies both collections, the failing source's as an empty result
\* (for vehicles: the demo record alone).
C3_PartialFailure ==
    (cycles[Latest].pc = "done" /\ ~cycles[Latest].cancel
        /\ (PropertyFailed \/ CarFailed))
    => /\ run.applied = {"property", "car"}
       /\ PropertyFailed => propertyListings = <<>>
       /\ CarFailed => carListings = <<demoCar>>

\* C4: whenever the list is shown (loading false) the current page lies within
\* 1..totalPages of the filtered collection.
C4_PageInRange ==
    (mounted /\ ~loading) => currentPage \in 1..totalPages

\* C5: every change of the listing kind, of the property filters or of the
\* vehicle filters sets the current page to 1.
C5_Step ==
    (activeType' # activeType \/ filters' # filters \/ carFilters' # carFilters)
        => currentPage' = 1
C5_KindOrFilterChangeResetsPage == [][C5_Step]_vars

\* C5 witness: a property-filter change found page 2 and left page 1.
C5_Witness ==
    /\ lastOp.op = "SetFilters"
    /\ lastOp.page = 2
    /\ currentPage = 1

\* C6: every change of the free-text query sets the current page to 1.
C6_QueryChangeResetsPage == [][query' # query => currentPage' = 1]_vars

(***************************************************************************)
(* Claims about the chat transcript (SpecChat)                             *)
(***************************************************************************)
IsPrefix(s, t) == Len(s) <= Len(t) /\ SubSeq(t, 1, Len(s)) = s

\* C7: the transcript is append-only: in every step the transcript before the
\* step is a prefix of the transcript after it.
C7_AppendOnly == [][IsPrefix(messages, messages')]_vars

\* C7 witness: a response was appended behind the user's message, which still
\* reads what the user sent.
C7_Witness ==
    /\ Len(messages) = 3
    /\ messages[2].role = "user" /\ messages[2].content = "condo near me"
    /\ messages[3].role = "assistant" /\ messages[3].content = "Try a larger budget."

\* C8: a response with n >= 1 listings appends exactly one assistant message
\* with empty text whose listings are the first min(3, n) records of the
\* response, in order; no message of the transcript carries more than 3.
C8_Step ==
    (chatPc = "awaitJson" /\ lastNet'.kind = "data" /\ HasListings(lastNet'.data))
    => LET n == Len(lastNet'.data.listings)
           m == Last(messages')
       IN  /\ Len(messages') = Len(messages) + 1
           /\ IsPrefix(messages, messages')
           /\ m.role = "assistant"
           /\ m.content = ""
           /\ Has(m, "listings")
           /\ m.listings = SubSeq(lastNet'.data.listings, 1, Min(3, n))
C8_AtMostThree ==
    \A i \in DOMAIN messages :
        Has(messages[i], "listings") => Len(messages[i].listings) <= 3
C8_ListingsCapped == [][C8_Step]_vars /\ []C8_AtMostThree

\* C8 witness: the backend returned 4 listings and the message holds the first 3.
C8_Witness ==
    /\ chatPc = "idle"
    /\ lastNet.kind = "data"
    /\ HasListings(lastNet.data)
    /\ Len(lastNet.data.listings) = 4
    /\ Has(Last(messages), "listings")
    /\ Last(messages).listings = SubSeq(ChatPool, 1, 3)

\* C9: when the round trip fails (fetch rejects, the body does not parse, or
\* the parsed body is not an object) the transcript is left as it was, ending
\* with the user's message, one notification is raised and loading is cleared.
C9_Step ==
    (chatPc # "idle" /\ lastNet'.kind \in {"fetchReject", "jsonReject", "null"})
    => /\ messages' = messages
       /\ Last(messages').role = "user"
       /\ toasts' = toasts + 1
       /\ isLoading' = FALSE
C9_FailureRaisesToast == [][C9_Step]_vars

\* C9 witness: the body of a 500 response did not parse; the transcript ends with
\* the user's message, one notification is up and loading is off.
C9_Witness ==
    /\ lastNet.kind = "jsonReject" /\ lastNet.status = 500
    /\ chatPc = "idle"
    /\ Len(messages) = 2 /\ messages[2].role = "user"
    /\ toasts = 1
    /\ ~isLoading

\* C10: a send appends a user message holding the current input at once, clears
\* the input and sets loading; no later step removes or changes a user message.
C10_Step ==
    /\ (chatPc = "idle" /\ chatPc' # "idle") =>
          /\ Len(messages') = Len(messages) + 1
          /\ IsPrefix(messages, messages')
          /\ Last(messages').role = "user"
          /\ Last(messages').content = input
          /\ input' = ""
          /\ isLoading' = TRUE
    /\ \A i \in DOMAIN messages :
          messages[i].role = "user" =>
              i \in DOMAIN messages' /\ messages'[i] = messages[i]
C10_OptimisticSend == [][C10_Step]_vars

\* C10 witness: a quick prompt was sent and the request failed; the user message
\* is still in the transcript and the input is empty.
C10_Witness ==
    /\ chatPc = "idle"
    /\ lastNet.kind = "fetchReject"
    /\ Len(messages) = 2
    /\ messages[2].role = "user" /\ messages[2].content = quickPrompts[1]
    /\ input = ""

\* C11: a response without listings (field absent or empty) appends exactly one
\* assistant message without listings whose text is the backend's reply text
\* when there is one and otherwise the fixed text
\* "I couldn't find any matching listings."
C11_Step ==
    (chatPc = "awaitJson" /\ lastNet'.kind = "data" /\ ~HasListings(lastNet'.data))
    => LET d == lastNet'.data
           m == Last(messages')
       IN  /\ Len(messages') = Len(messages) + 1
           /\ IsPrefix(messages, messages')
           /\ m.role = "assistant"
           /\ ~Has(m, "listings")
           /\ m.content = IF Has(d, "reply") /\ d.reply # ""
                          THEN d.reply
                          ELSE "I couldn't find any matching listings."
C11_FallbackBranch == [][C11_Step]_vars

\* C12: a turn goes idle -> sending -> one outcome -> idle.  A step that leaves
\* idle is a send and appends one user message; while a turn is in flight no
\* user message is appended; the step back to idle is exactly one of
\* listings-received (one assistant message with listings), text-received (one
\* assistant message without) and failed (no message, one notification); every
\* turn in flight reaches its outcome.
ListingsReceived ==
    /\ Len(messages') = Len(messages) + 1
    /\ Last(messages').role = "assistant" /\ Has(Last(messages'), "listings")
    /\ toasts' = toasts
TextReceived ==
    /\ Len(messages') = Len(messages) + 1
    /\ Last(messages').role = "assistant" /\ ~Has(Last(messages'), "listings")
    /\ toasts' = toasts
TurnFailed == messages' = messages /\ toasts' = toasts + 1
C12_Step ==
    /\ (chatPc = "idle" /\ chatPc' # "idle") =>
          /\ Len(messages') = Len(messages) + 1
          /\ Last(messages').role = "user"
    /\ (chatPc = "idle" /\ chatPc' = "idle") => messages' = messages
    /\ (chatPc # "idle" /\ chatPc' # "idle") => messages' = messages /\ toasts' = toasts
    /\ (chatPc # "idle" /\ chatPc' = "idle") =>
          /\ ListingsReceived \/ TextReceived \/ TurnFailed
          /\ ~isLoading'
C12_Shape ==
    /\ isLoading <=> chatPc # "idle"
    /\ \A i \in 2..Len(messages) :
          messages[i].role = "assistant" => messages[i - 1].role = "user"
    /\ chatPc # "idle" => Last(messages).role = "user"
C12_TurnStateMachine ==
    /\ [][C12_Step]_vars
    /\ []C12_Shape
    /\ (chatPc # "idle") ~> (chatPc = "idle")

\* C12 witness: two turns, the first failed and the second received listings.
C12_Witness ==
    /\ chatPc = "idle"
    /\ Len(messages) = 4
    /\ messages[2].role = "user" /\ messages[3].role = "user"
    /\ Has(messages[4], "listings")
    /\ toasts = 1

(***************************************************************************)
(* Claims about the loading flag, the filter and the paginator             *)
(***************************************************************************)
InFlight(c) ==
    cycles[c].pc \in {"awaitPropFetch", "awaitPropJson", "awaitCarFetch", "awaitCarJson"}

\* C13: loading is true in every state in which the current fetch cycle has begun
\* and not yet finished, and it goes from true to false only in the step in which
\* the current cycle finishes with both of its sources resolved (with data or
\* degraded to empty).
C13_TrueWhileInFlight ==
    (InFlight(Latest) /\ ~cycles[Latest].cancel) => loading
C13_ClearedStep ==
    (loading /\ ~loading') =>
        /\ cycles[Latest].pc # "done" /\ cycles'[Latest].pc = "done"
        /\ run'.applied = {"property", "car"}
C13_LoadingCoversCycle == []C13_TrueWhileInFlight /\ [][C13_ClearedStep]_vars

\* C14: in no state in which the list is shown (loading false) do the two
\* collections hold the results of two different fetch cycles.
C14_AtomicVisibility ==
    (mounted /\ ~loading) =>
        ~(writer.property # 0 /\ writer.car # 0 /\ writer.property # writer.car)

\* C15: for a blank or white-space-only query the filtered view is the whole
\* collection in its order; otherwise it is the ordered subsequence of exactly
\* the listings for which the lower-cased query is a substring of the lower-cased
\* title or price, or of location or sqft (property), or of details, year or
\* mileage (vehicle).
IsBlank(q) == \A i \in 1..Len(q) : SubSeq(q, i, i) \in {" ", "\t", "\n"}
IsSubstring(q, s) ==
    \E i \in 0..Len(s) : \E j \in i..Len(s) : SubSeq(s, i + 1, j) = q
Hit(l, q, kind) ==
    LET in(field) == IsSubstring(ToLowerCase(q), ToLowerCase(field))
    IN  \/ in(l.title)
        \/ in(l.price)
        \/ kind = "property" /\ (in(l.location) \/ in(l.sqft))
        \/ kind = "car" /\ (in(l.details) \/ in(l.year) \/ in(l.mileage))
C15_FilteredView ==
    fn = "filteredListings" =>
        IF IsBlank(arg.query)
        THEN out = arg.coll
        ELSE LET idx == {i \in DOMAIN arg.coll : Hit(arg.coll[i], arg.query, arg.kind)}
                 Kth(k) == CHOOSE i \in idx : Cardinality({j \in idx : j <= i}) = k
             IN  /\ Len(out) = Cardinality(idx)
                 /\ \A k \in 1..Len(out) : out[k] = arg.coll[Kth(k)]

\* C15 witness: an upper-case query selected some, not all, of ten properties.
C15_Witness ==
    /\ fn = "filteredListings"
    /\ arg.query = "PLANO" /\ arg.kind = "property"
    /\ Len(arg.coll) = 10
    /\ Len(out) > 0 /\ Len(out) < Len(arg.coll)

\* C16: filtering is idempotent: filtering the filtered view again with the same
\* query and kind yields the same sequence.
C16_FilterIdempotent ==
    fn = "filteredAgain" => out = arg.coll

\* C16 witness: the query kept one of the properties, and filtering that one
\* again kept it.
C16_Witness ==
    /\ fn = "filteredAgain"
    /\ arg.query = "condo" /\ arg.kind = "property"
    /\ Len(arg.coll) = 1
    /\ out = arg.coll

\* C17: for a filtered collection of n listings totalPages is ceil(n / 9) when
\* n > 0 (the least number of pages of 9 that hold n) and 1 when n = 0; it is
\* never below 1.
C17_TotalPages ==
    fn = "totalPages" =>
        /\ out.pages >= 1
        /\ arg.n = 0 => out.pages = 1
        /\ arg.n > 0 => (out.pages * 9 >= arg.n /\ (out.pages - 1) * 9 < arg.n)

\* C17 witness: ten listings need two pages.
C17_Witness ==
    /\ fn = "totalPages"
    /\ arg.n = 10
    /\ out.pages = 2

\* C18: the displayed page p of a filtered view is the contiguous run of its
\* listings at 0-based positions (p-1)*9 .. p*9 - 1, in order, never more than 9
\* of them; the pages 1..totalPages put one after the other are the filtered
\* view itself, every listing once.
RECURSIVE PagesFrom(_, _, _)
PagesFrom(f, p, last) ==
    IF p > last THEN <<>> ELSE PageOf(f, p) \o PagesFrom(f, p + 1, last)
C18_PageIsSlice ==
    fn = "paginatedListings" =>
        LET f == arg.filtered
            lo == (arg.page - 1) * 9
            positions == {i \in 0..(Len(f) - 1) : lo <= i /\ i < arg.page * 9}
        IN  /\ Len(out) <= 9
            /\ Len(out) = Cardinality(positions)
            /\ \A k \in 1..Len(out) : out[k] = f[lo + k]
C18_PagesCover ==
    fn = "filteredListings" => PagesFrom(out, 1, TotalPagesOf(Len(out))) = out
C18_Pagination == C18_PageIsSlice /\ C18_PagesCover

\* C18 witness: page 2 of ten listings holds the tenth alone.
C18_Witness ==
    /\ fn = "paginatedListings"
    /\ arg.page = 2
    /\ Len(arg.filtered) = 10
    /\ out = <<arg.filtered[10]>>

(***************************************************************************)
(* Claims about page navigation (SpecListingsBig)                          *)
(***************************************************************************)
\* C19: a navigation step (Previous, Next or a numbered button: the steps that
\* change the current page while the kind and the filters stay) leaves the
\* current page within 1..totalPages.
C19_Step ==
    (/\ currentPage' # currentPage
     /\ activeType' = activeType /\ filters' = filters /\ carFilters' = carFilters)
    => LET shown == IF activeType' = "property" THEN propertyListings' ELSE carListings'
           pagesAfter == TotalPagesOf(Len(FilterListings(shown, query', activeType')))
       IN  currentPage' \in 1..pagesAfter
C19_NavigationClamps == [][C19_Step]_vars

(***************************************************************************)
(* Claims about the chat classifier (SpecPure)                             *)
(***************************************************************************)
\* C20: every record of a message is classified by itself: vehicle exactly when
\* it exposes (holds a non-empty) make, or body type, or the source marker
\* "Cars.com", and property otherwise, whatever the other records of the
\* message are; the empty record is a property, a record with a make and an
\* address is a vehicle.
Exposes(r, f) == f \in DOMAIN r /\ r[f] # ""
VehicleRecord(r) ==
    \/ Exposes(r, "make")
    \/ Exposes(r, "bodyType")
    \/ ("source" \in DOMAIN r /\ r.source = "Cars.com")
C20_Classifier ==
    fn = "layouts" =>
        /\ DOMAIN out = DOMAIN arg.listings
        /\ \A i \in DOMAIN out :
              out[i] = "car" <=> VehicleRecord(ClassifierPool[arg.picks[i]])
        /\ \A i \in DOMAIN out :
              /\ arg.picks[i] = 7 => out[i] = "property"
              /\ arg.picks[i] = 4 => out[i] = "car"

\* C20 witness: a mixed message: the empty record, then the record with a make
\* and an address, then a property.
C20_Witness ==
    /\ fn = "layouts"
    /\ arg.picks = <<7, 4, 2>>
    /\ out = <<"property", "car", "property">>

(***************************************************************************)
(* Claims about the fetch cycle's outcome (SpecListings)                   *)
(***************************************************************************)
\* a run of the effect that was not superseded has returned
FinishedCurrent(c) == cycles[c].pc = "done" /\ ~cycles[c].cancel

\* C21: once a fetch cycle that was not superseded has finished, whatever the
\* upstreams answered (records, no records, a non-2xx status, a network
\* error), the vehicle collection is non-empty and starts with the demo record.
C21_DemoCarFirst ==
    (\E c \in DOMAIN cycles : FinishedCurrent(c))
        => Len(carListings) > 0 /\ carListings[1] = demoCar

(***************************************************************************)
(* Claims about the canonical records (SpecListings)                       *)
(***************************************************************************)
\* a formatted currency string: "$" followed by digits in groups
IsCurrency(s) ==
    /\ Len(s) > 1
    /\ SubSeq(s, 1, 1) = "$"
    /\ \A i \in 2..Len(s) : \E d \in 0..9 : SubSeq(s, i, i) \in {Digit(d), ","}

\* C22: in every reachable state every listing of either collection has a price
\* that is a formatted currency string or the unavailable sentinel, never the
\* empty string and never missing.
C22_PriceNeverEmpty ==
    \A coll \in {propertyListings, carListings} :
        \A i \in DOMAIN coll :
            /\ "price" \in DOMAIN coll[i]
            /\ coll[i].price # ""
            /\ IsCurrency(coll[i].price) \/ coll[i].price = "N/A"

(***************************************************************************)
(* Claims about the normalizers (SpecPure)                                 *)
(***************************************************************************)
PropertyFields ==
    {"id", "title", "location", "price", "bedrooms", "bathrooms", "sqft", "image",
     "condition"}
CarFields ==
    {"id", "title", "details", "price", "mileage", "year", "image", "condition",
     "color", "make", "bodyType"}
PropertyTextFields == {"id", "title", "location", "price", "sqft", "image"}
CarTextFields == CarFields \ {"condition"}

\* the text a template renders a missing value as
Leaks(s) == Includes(s, "undefined") \/ Includes(s, "null") \/ Includes(s, "NaN")

\* C23: a raw property or vehicle record with any subset of its fields missing
\* is normalized to exactly one canonical listing, every field of its variant
\* is populated, and no missing value reaches the listing.
C23_NormalizerTotal ==
    /\ fn = "transformedProperties" =>
          /\ Len(out) = 1
          /\ DOMAIN out[1] = PropertyFields
          /\ \A f \in PropertyTextFields : ~Leaks(out[1][f])
    /\ fn = "transformedCars" =>
          /\ Len(out) = 2
          /\ DOMAIN out[2] = CarFields
          /\ \A f \in CarTextFields : ~Leaks(out[2][f])

(***************************************************************************)
(* Claims about errors inside a fetch cycle (SpecListings)                 *)
(***************************************************************************)
\* the latest run of the effect caught an error in this step
CaughtNow == run.threw = "none" /\ run'.threw # "none"

\* C24: an error raised inside a fetch cycle is caught, the component stays
\* mounted and the cycle returns, and the step that catches it raises a
\* notification the user can see.
C24_Step ==
    CaughtNow => /\ mounted' = mounted
                 /\ cycles'[Len(cycles')].pc = "done"
                 /\ toasts' = toasts + 1
C24_ErrorNotifies == [][C24_Step]_vars

(***************************************************************************)
(* Claims about the details dialog (SpecSelection)                         *)
(***************************************************************************)
\* C25: opening sets the selection and the open flag together; every way of
\* closing (dismissal, the Close button) sets the flag to false and leaves the
\* selection cleared, never clearing it while the flag is still true; whenever
\* the dialog is open a listing is selected.
C25_OpenStep ==
    (~dialogOpen /\ dialogOpen') =>
        /\ selectedListing' # null
        /\ \E i \in DOMAIN paginatedListings : selectedListing' = paginatedListings[i]
C25_CloseStep == (dialogOpen /\ ~dialogOpen') => selectedListing' = null
C25_NoEarlyClear == (selectedListing # null /\ selectedListing' = null) => ~dialogOpen'
C25_OpenHasSelection == dialogOpen' => selectedListing' # null
C25_SelectionController ==
    [][C25_OpenStep /\ C25_CloseStep /\ C25_NoEarlyClear /\ C25_OpenHasSelection]_vars

(***************************************************************************)
(* Claims about the condition label (SpecPure)                             *)
(***************************************************************************)
\* C26: for every score c the normalizer can sample (70..95) the label is
\* "Excellent" when c >= 90, "Very Good" when 80 <= c < 90, "Good" when c < 80.
C26_ConditionLabel ==
    fn = "conditionLabel" =>
        LET c == arg.selected.condition
        IN  /\ c \in 70..95
            /\ c >= 90 => out.label = "Excellent"
            /\ (80 <= c /\ c < 90) => out.label = "Very Good"
            /\ c < 80 => out.label = "Good"

\* C26 witness: the score 90, on the upper threshold, is labelled "Excellent".
C26_Witness ==
    /\ fn = "conditionLabel"
    /\ arg.selected.condition = 90
    /\ out.label = "Excellent"

(***************************************************************************)
(* Claims about the vehicle details string (SpecPure)                      *)
(***************************************************************************)
\* the separator of the details string (the bullet, in ASCII)
Separator == " * "

\* the non-empty strings of parts, in order, joined by the separator
RECURSIVE JoinNonEmpty(_)
JoinNonEmpty(parts) ==
    IF parts = <<>> THEN ""
    ELSE LET rest == JoinNonEmpty(Tail(parts))
         IN  IF Head(parts) = "" THEN rest
             ELSE IF rest = "" THEN Head(parts)
             ELSE Head(parts) \o Separator \o rest

\* the part of the evaluated vehicle record, "" when it is absent
PartOf(f) == IF f \in arg.present THEN FullCar[f] ELSE ""

\* C27: the details string of a normalized vehicle is the non-empty parts among
\* body type, transmission and trim, in that order, joined by the separator; it
\* never starts or ends with the separator, whichever parts are present.
C27_DetailsJoined ==
    fn = "transformedCars" =>
        LET d == out[2].details
        IN  /\ d = JoinNonEmpty(<< PartOf("body_type"), PartOf("transmission"),
                                   PartOf("trim") >>)
            /\ Len(d) >= Len(Separator) =>
                  /\ SubSeq(d, 1, Len(Separator)) # Separator
                  /\ SubSeq(d, Len(d) - Len(Separator) + 1, Len(d)) # Separator

(***************************************************************************)
(* Claims about the two requests of a cycle (SpecListings)                 *)
(***************************************************************************)
\* the property request of run c is awaiting its response or its body
PropertyPending(c) == cycles[c].pc \in {"awaitPropFetch", "awaitPropJson"}

\* C28: the two requests of a cycle are issued in parallel: while the property
\* request is still awaiting its response the vehicle request has been issued
\* as well, so that either result can land first.
C28_ParallelRequests ==
    \A c \in DOMAIN cycles : PropertyPending(c) => cycles[c].carReq # ""

(***************************************************************************)
(* Claims about the guard of handleSend (SpecChat)                         *)
(***************************************************************************)
\* a user message is appended, or a request is issued, in this step
UserAppended ==
    Len(messages') > Len(messages) /\ messages'[Len(messages')].role = "user"
RequestIssued == chatPc' = "awaitFetch"

\* C29: a send does nothing when the input is empty or white space only, or
\* when a send is in flight: a user message is appended and a request issued
\* only from a state whose input is not blank, with no send in flight; hence
\* while a request is outstanding no other is issued, and no user message of
\* the transcript has blank content.
C29_Step ==
    (UserAppended \/ RequestIssued) =>
        /\ Trim(input) # ""
        /\ ~isLoading
        /\ chatPc = "idle"
        /\ UserAppended /\ RequestIssued
C29_OneOutstanding == chatPc # "idle" => isLoading
C29_NoBlankUserMessage ==
    \A i \in DOMAIN messages :
        messages[i].role = "user" => Trim(messages[i].content) # ""
C29_SendGuard == [][C29_Step]_vars /\ [](C29_OneOutstanding /\ C29_NoBlankUserMessage)

\* C29 witness: after a completed turn the input holds white space only; the
\* transcript still has the one user message of that turn.
C29_Witness ==
    /\ input = "  "
    /\ chatPc = "idle"
    /\ UserTurns(messages) = 1
    /\ Len(messages) = 3

(***************************************************************************)
(* Claims about quiescence of the fetch effect (SpecFetchFair)             *)
(***************************************************************************)
\* the latest run of the effect has returned, with both requests answered 2xx
\* and both bodies usable
LastCycleDone == cycles[Latest].pc = "done"
LastCycleSucceeded ==
    /\ LastCycleDone
    /\ run.threw = "none" /\ run.non2xx = {}
    /\ run.applied = {"property", "car"}

\* the collections are the normalized responses of the latest run, which was
\* started for the filters now in force
ShowsLastResponses ==
    /\ cycles[Latest].filters = filters /\ cycles[Latest].carFilters = carFilters
    /\ propertyListings = run.props
    /\ \E body \in PropertyBodies, s \in RandomStreams :
          propertyListings = transformedProperties(body, filters, s)
    /\ carListings = run.cars
    /\ \E body \in CarBodies, s \in RandomStreams :
          carListings = <<demoCar>> \o Tail(transformedCars(body, s))

Settled == ~loading /\ LastCycleDone /\ (LastCycleSucceeded => ShowsLastResponses)

\* C30: when the component stays mounted, timers fire and requests settle (and
\* filter changes cease), loading eventually becomes false and stays false,
\* and if both requests of the last cycle succeeded the two collections are
\* from then on the normalized responses for the final filters, the vehicles
\* with the demo record first.
C30_Quiescence == (<>(~mounted)) \/ (<>[]Settled)

\* C30 witness: the second run of the effect, started by a filter change, has
\* succeeded and the page shows its responses.
C30_Witness ==
    /\ mounted /\ Latest = 2
    /\ LastCycleSucceeded /\ Settled
    /\ Len(propertyListings) > 0 /\ Len(carListings) > 1

(***************************************************************************)
(* Claims about the runs of the fetch effect (SpecListings)                *)
(***************************************************************************)
\* run c is current: scheduled or in flight, and not superseded
Scheduled(c) == cycles[c].pc = "timer"
Current(c) == ~cycles[c].cancel /\ (Scheduled(c) \/ InFlight(c))
SupersededInFlight(c) == cycles[c].cancel /\ InFlight(c)

\* C31: at most one fetch cycle is current at any time; a filter change
\* supersedes the previous cycle in the step that schedules the next one, and
\* unmount supersedes it too; superseded cycles may still be in flight.
C31_AtMostOneCurrent ==
    /\ Cardinality({c \in DOMAIN cycles : Current(c)}) <= 1
    /\ \A c \in DOMAIN cycles : Current(c) => c = Latest
C31_Step ==
    /\ Len(cycles') > Len(cycles) =>
          /\ Len(cycles') = Len(cycles) + 1
          /\ \A c \in DOMAIN cycles : cycles'[c].cancel /\ cycles'[c].pc # "timer"
          /\ cycles'[Len(cycles')].pc = "timer" /\ ~cycles'[Len(cycles')].cancel
    /\ (mounted /\ ~mounted') =>
          \A c \in DOMAIN cycles' : cycles'[c].cancel /\ cycles'[c].pc # "timer"
C31_OneCurrentCycle == []C31_AtMostOneCurrent /\ [][C31_Step]_vars

\* C31 witness: a superseded cycle is still in flight while the cycle that
\* superseded it is in flight as well.
C31_Witness ==
    /\ Latest = 2
    /\ SupersededInFlight(1)
    /\ Current(2) /\ InFlight(2)

(***************************************************************************)
(* Claims about a request that throws (SpecListings)                       *)
(***************************************************************************)
\* C32: when a request of the current cycle throws, the collections the cycle
\* has not written keep their values (they are not emptied; what the cycle did
\* write stays as written), the cycle returns without issuing another request,
\* and loading is cleared.
C32_Step ==
    CaughtNow =>
        /\ propertyListings' = propertyListings
        /\ carListings' = carListings
        /\ "property" \in run.applied => propertyListings' = run.props
        /\ cycles'[Latest].pc = "done"
        /\ cycles'[Latest].propReq = cycles[Latest].propReq
        /\ cycles'[Latest].carReq = cycles[Latest].carReq
        /\ loading' = FALSE
C32_NoFurtherRequest ==
    /\ run.threw # "none" => cycles[Latest].pc = "done"
    /\ run.threw \in {"propertyFetch", "propertyBody"} => cycles[Latest].carReq = ""
C32_ThrowKeepsCollections == [][C32_Step]_vars /\ []C32_NoFurtherRequest

\* C32 witness: the property request of the second cycle threw; the listings
\* of the first cycle are still shown, no vehicle request was issued, loading
\* is cleared.
C32_Witness ==
    /\ Latest = 2 /\ ~cycles[2].cancel
    /\ run.threw = "propertyFetch"
    /\ Len(propertyListings) > 0 /\ Len(carListings) > 0
    /\ cycles[2].carReq = ""
    /\ ~loading

(***************************************************************************)
(* Claims about the HTTP status of the chat response (SpecChat)            *)
(***************************************************************************)
\* the step delivers a response (headers), or a body that parsed to an object
ResponseArrives == lastNet'.kind = "response" /\ chatPc = "awaitFetch"
ObjectArrives == lastNet'.kind = "data" /\ chatPc = "awaitJson"

\* C33: the HTTP status is not inspected: a response of any status goes on to
\* have its body read, and a body that parses to a JSON object gets exactly one
\* assistant message (the listings, the reply text or the fallback text), the
\* same for a non-2xx status as for 200, and raises no notification.
C33_Step ==
    /\ ResponseArrives =>
          chatPc' = "awaitJson" /\ toasts' = toasts /\ messages' = messages /\ isLoading'
    /\ ObjectArrives =>
          LET data == lastNet'.data
              m == messages'[Len(messages')]
          IN  /\ Len(messages') = Len(messages) + 1
              /\ SubSeq(messages', 1, Len(messages)) = messages
              /\ m.role = "assistant"
              /\ IF HasListings(data)
                 THEN "listings" \in DOMAIN m /\ m.content = ""
                 ELSE /\ "listings" \notin DOMAIN m
                      /\ m.content = (IF Has(data, "reply") /\ data.reply # ""
                                      THEN data.reply ELSE FallbackText)
              /\ toasts' = toasts
              /\ lastNet'.status = lastNet.status
C33_StatusIgnored == [][C33_Step]_vars

\* C33 witness: a response with status 500 whose body parsed to an object was
\* answered with an assistant message, and no notification was raised.
C33_Witness ==
    /\ lastNet.kind = "data" /\ lastNet.status = 500
    /\ chatPc = "idle" /\ ~isLoading
    /\ messages[Len(messages)].role = "assistant"
    /\ Len(messages) = 3
    /\ toasts = 0

====
